---- MODULE Spec2Model ----
(***************************************************************************)
(* A model of xpaste's packaging descriptor, setup.py.                     *)
(*                                                                         *)
(* The descriptor is one sequential script: when it is run as the main     *)
(* program it reads README.rst inside a `with` block, then calls           *)
(* distutils' setup() with literal metadata, the file lists and the text   *)
(* it read.  The model follows the script statement by statement (pc).     *)
(*                                                                         *)
(* The environment of one run is fixed in Init: the files of the checkout  *)
(* (fs), the bytes of README.rst (readme), whether reading it raises       *)
(* (readable), the interpreter's major version (python; the classifiers    *)
(* declare both 2.7 and 3) and whether the script is the main program      *)
(* (is_main).  setup() itself is distutils code, not code of the           *)
(* repository: the descriptor decides what setup() is called with, not     *)
(* whether it returns or raises, so once called it may do either.  Init is *)
(* the state after the import of line 2 has succeeded.                     *)
(***************************************************************************)
EXTENDS Naturals, Sequences, FiniteSets

VARIABLES
    is_main,            \* __name__ == '__main__'
    fs,                 \* the files present in the checkout
    readme,             \* the bytes of README.rst
    readable,           \* whether file.read() returns (else it raises)
    python,             \* the interpreter's major version
    pc,                 \* the statement about to run
    long_descriptions,  \* the list of line 5
    file,               \* the handle of line 6: "none", "open" or "closed"
    pending,            \* the exception in flight inside the with block
    err,                \* the exception that left the script
    opened,             \* the names passed to open(), in order
    setup_calls,        \* the keyword arguments of each setup() call, in order
    artifact            \* the manifest of the artifact setup() produced

vars == <<is_main, fs, readme, readable, python, pc, long_descriptions, file,
          pending, err, opened, setup_calls, artifact>>

env == <<is_main, fs, readme, readable, python>>

\* Longest README.rst content explored, in characters.
MaxLen == 3

\* The characters README.rst is made of: a letter, a line feed and a
\* carriage return.
Chars == {"a", "\n", "\r"}

RECURSIVE SeqsUpTo(_)
SeqsUpTo(n) ==
    IF n = 0 THEN {<<>>}
    ELSE LET shorter == SeqsUpTo(n - 1)
         IN  shorter \cup {Append(s, c) : s \in {t \in shorter : Len(t) = n - 1}, c \in Chars}

Contents == SeqsUpTo(MaxLen)

Range(s) == {s[i] : i \in 1..Len(s)}

(***************************************************************************)
(* The literals of the setup() call.                                       *)
(***************************************************************************)
name == "xpaste"

\* Variant: a version derived from what the build read.
version_from_readme == IF readme = <<>> THEN "1.6" ELSE "1.6+readme"
version == "1.6"

\* Variant: the script left out of the script list.
scripts_empty == <<>>
scripts == <<"xpaste">>

\* Variant: the man page also listed under the documentation directory.
data_files_man_under_doc ==
    << <<"share/doc/xpaste", <<"LICENSE.txt", "README.rst", "xpaste.1x">> >>,
       <<"share/man/man1", <<"xpaste.1x">> >> >>
data_files ==
    << <<"share/doc/xpaste", <<"LICENSE.txt", "README.rst">> >>,
       <<"share/man/man1", <<"xpaste.1x">> >> >>

\* Variant: the commented-out version specifier in force.
install_requires_pinned == <<"python-xlib>=0.14">>
install_requires == <<"python-xlib">>

license == "GPLv3+"

platforms == <<"linux">>

\* The separator of line 21, '\n\n\n'.
separator == <<"\n", "\n", "\n">>

\* The file named in the open() call.
\* Variant: another file opened in place of the readme.
opened_license == "LICENSE.txt"
opened_file == "README.rst"

\* The interpreters the classifiers declare.
Pythons == {2, 3}

\* Every file name the checkout may hold.
AllFiles == {"xpaste", "LICENSE.txt", "README.rst", "xpaste.1x"}

(***************************************************************************)
(* Pure functions.                                                         *)
(***************************************************************************)

\* Variant of str.join: `sep` after every element.
RECURSIVE JoinTrailing(_, _)
JoinTrailing(sep, xs) ==
    IF xs = <<>> THEN <<>>
    ELSE Head(xs) \o sep \o JoinTrailing(sep, Tail(xs))

\* str.join: the elements with `sep` between each two of them.
RECURSIVE Join(_, _)
Join(sep, xs) ==
    IF xs = <<>> THEN <<>>
    ELSE IF Len(xs) = 1 THEN Head(xs)
    ELSE Head(xs) \o sep \o Join(sep, Tail(xs))

\* Text mode with the default newline=None: "\r\n" and a lone "\r" are
\* both read as "\n".
RECURSIVE UniversalNewlines(_)
UniversalNewlines(s) ==
    IF s = <<>> THEN <<>>
    ELSE IF Head(s) = "\r"
         THEN IF Len(s) >= 2 /\ s[2] = "\n"
              THEN <<"\n">> \o UniversalNewlines(SubSeq(s, 3, Len(s)))
              ELSE <<"\n">> \o UniversalNewlines(Tail(s))
         ELSE <<Head(s)>> \o UniversalNewlines(Tail(s))

\* file.read() on a handle opened by open(name) with the default mode 'r':
\* Python 3 translates line endings, Python 2 on Linux returns the bytes.
TextModeRead(py, bytes) ==
    IF py = 3 THEN UniversalNewlines(bytes) ELSE bytes

\* Variant: open() that never raises.
CanOpenAlways(f) == TRUE

\* open(name) succeeds when the file is there.
CanOpen(f) == f \in fs

\* Variant: the build steps run on every load.
MainGuardAlways == TRUE

\* The test of line 4.
MainGuard == is_main

\* The keyword arguments of the setup() call of lines 9-39.
SetupArgs ==
    [name |-> name,
     version |-> version,
     scripts |-> scripts,
     data_files |-> data_files,
     install_requires |-> install_requires,
     long_description |-> Join(separator, long_descriptions),
     license |-> license,
     platforms |-> platforms]

(***************************************************************************)
(* The script, one action per statement.                                   *)
(***************************************************************************)
Init ==
    /\ is_main \in BOOLEAN
    /\ fs \in SUBSET AllFiles
    /\ readme \in Contents
    /\ readable \in BOOLEAN
    /\ python \in Pythons
    /\ pc = "l4"
    /\ long_descriptions = <<>>
    /\ file = "none"
    /\ pending = "none"
    /\ err = "none"
    /\ opened = <<>>
    /\ setup_calls = <<>>
    /\ artifact = <<>>

\* Line 4: if __name__ == '__main__'.  Loaded as a module, the script ends.
TestMain ==
    /\ pc = "l4"
    /\ pc' = IF MainGuard THEN "l5" ELSE "end"
    /\ UNCHANGED <<env, long_descriptions, file, pending, err, opened,
                   setup_calls, artifact>>

\* Line 5: long_descriptions = [].
InitDescriptions ==
    /\ pc = "l5"
    /\ long_descriptions' = <<>>
    /\ pc' = "l6"
    /\ UNCHANGED <<env, file, pending, err, opened, setup_calls, artifact>>

\* Line 6: with open('README.rst') as file.  A missing file raises before
\* the with block is entered, so the error leaves the script at once.
OpenReadme ==
    /\ pc = "l6"
    /\ opened' = Append(opened, opened_file)
    /\ IF CanOpen(opened_file)
       THEN /\ file' = "open"
            /\ pc' = "l7"
            /\ err' = err
       ELSE /\ file' = file
            /\ pc' = "end"
            /\ err' = "FileNotFound"
    /\ UNCHANGED <<env, long_descriptions, pending, setup_calls, artifact>>

\* Line 7: long_descriptions.append(file.read()).  A read that raises
\* (undecodable bytes, an I/O error) leaves the list as it was.
ReadReadme ==
    /\ pc = "l7"
    /\ IF readable
       THEN /\ long_descriptions' =
                   Append(long_descriptions, TextModeRead(python, readme))
            /\ pending' = pending
       ELSE /\ long_descriptions' = long_descriptions
            /\ pending' = "ReadError"
    /\ pc' = "exit"
    /\ UNCHANGED <<env, file, err, opened, setup_calls, artifact>>

\* Variant: a handle closed on the normal path only (no with block).
WithExitLeak ==
    /\ pc = "exit"
    /\ file' = IF pending = "none" THEN "closed" ELSE file
    /\ IF pending = "none"
       THEN pc' = "l9" /\ err' = err
       ELSE pc' = "end" /\ err' = pending
    /\ pending' = "none"
    /\ UNCHANGED <<env, long_descriptions, opened, setup_calls, artifact>>

\* Variant: a failed read retried once.
WithExitRetry ==
    /\ pc = "exit"
    /\ file' = "closed"
    /\ IF pending = "none"
       THEN pc' = "l9" /\ err' = err
       ELSE IF Len(opened) < 2
            THEN pc' = "l5" /\ err' = err
            ELSE pc' = "end" /\ err' = pending
    /\ pending' = "none"
    /\ UNCHANGED <<env, long_descriptions, opened, setup_calls, artifact>>

\* The end of the with block (lines 6-7): the handle's __exit__ closes it,
\* then a pending exception goes on to leave the script.
WithExit ==
    /\ pc = "exit"
    /\ file' = "closed"
    /\ IF pending = "none"
       THEN pc' = "l9" /\ err' = err
       ELSE pc' = "end" /\ err' = pending
    /\ pending' = "none"
    /\ UNCHANGED <<env, long_descriptions, opened, setup_calls, artifact>>

\* Lines 9-39: setup(...) is called with the literals and the joined text.
CallSetup ==
    /\ pc = "l9"
    /\ setup_calls' = Append(setup_calls, SetupArgs)
    /\ pc' = "setup"
    /\ UNCHANGED <<env, long_descriptions, file, pending, err, opened, artifact>>

\* setup() returns: the artifact is built from the manifest it was given.
SetupReturns ==
    /\ pc = "setup"
    /\ artifact' = <<setup_calls[Len(setup_calls)]>>
    /\ pc' = "end"
    /\ UNCHANGED <<env, long_descriptions, file, pending, err, opened, setup_calls>>

\* setup() raises (no command given, a listed file it cannot copy, ...):
\* the script has no handler, the error leaves it.
SetupRaises ==
    /\ pc = "setup"
    /\ err' = "SetupError"
    /\ pc' = "end"
    /\ UNCHANGED <<env, long_descriptions, file, pending, opened, setup_calls, artifact>>

Next ==
    \/ TestMain
    \/ InitDescriptions
    \/ OpenReadme
    \/ ReadReadme
    \/ WithExit
    \/ CallSetup
    \/ SetupReturns
    \/ SetupRaises

Spec == Init /\ [][Next]_vars

\* The interpreter runs the script to its end, and setup() comes back.
FairSpec == Spec /\ WF_vars(Next)

\* The build's state as the design names it.
State ==
    IF artifact # <<>> THEN "artifact produced"
    ELSE IF err # "none" THEN "failed"
    ELSE "descriptor declared"

Ended == pc = "end"

TerminalStates == {"artifact produced", "failed"}

(***************************************************************************)
(* What a manifest (the arguments of a setup() call) lists.                *)
(***************************************************************************)
DataFileNames(m) ==
    UNION {Range(m.data_files[i][2]) : i \in 1..Len(m.data_files)}

ListedFiles(m) == Range(m.scripts) \cup DataFileNames(m)

RECURSIVE CountEntries(_)
CountEntries(pairs) ==
    IF pairs = <<>> THEN 0
    ELSE Len(Head(pairs)[2]) + CountEntries(Tail(pairs))

\* How many entries the script list and the data-file lists hold together.
ListedCount(m) == Len(m.scripts) + CountEntries(m.data_files)

\* The directories a manifest installs data file f under.
Destinations(m, f) ==
    {m.data_files[i][1] : i \in {j \in 1..Len(m.data_files) :
                                    f \in Range(m.data_files[j][2])}}

\* A text without its line-break characters.
RECURSIVE Letters(_)
Letters(s) ==
    IF s = <<>> THEN <<>>
    ELSE IF Head(s) \in {"\n", "\r"} THEN Letters(Tail(s))
    ELSE <<Head(s)>> \o Letters(Tail(s))

DataFiles == {"LICENSE.txt", "README.rst", "xpaste.1x"}

(***************************************************************************)
(* C1                                                                      *)
(***************************************************************************)

\* C1 as stated: whenever README.rst, LICENSE.txt and xpaste.1x are present
\* (and README.rst can be read), a build run as the main program ends with an
\* artifact produced, and the artifact lists exactly the four files.
C1_BuildSucceedsWithThreeFiles ==
    (Ended /\ is_main /\ DataFiles \subseteq fs /\ readable) =>
        /\ State = "artifact produced"
        /\ \A i \in 1..Len(artifact) : ListedFiles(artifact[i]) = AllFiles

\* C1, amended: when README.rst is present and readable, a build run as the
\* main program calls setup() exactly once; every setup() call lists exactly
\* four files, the script xpaste and the data files LICENSE.txt, README.rst
\* and xpaste.1x, each once; and an artifact, when setup() produces one, is
\* built from exactly that manifest.  Whether setup() succeeds is not decided
\* by the descriptor.
C1_ManifestListsFourFiles ==
    /\ (Ended /\ is_main /\ "README.rst" \in fs /\ readable) => Len(setup_calls) = 1
    /\ \A i \in 1..Len(setup_calls) :
          /\ Range(setup_calls[i].scripts) = {"xpaste"}
          /\ DataFileNames(setup_calls[i]) = DataFiles
          /\ ListedFiles(setup_calls[i]) = AllFiles
          /\ ListedCount(setup_calls[i]) = 4
    /\ artifact # <<>> => artifact = setup_calls

C1_Witness ==
    /\ Ended /\ is_main /\ DataFiles \subseteq fs
    /\ State = "artifact produced"
    /\ ListedFiles(artifact[1]) = AllFiles

(***************************************************************************)
(* C2                                                                      *)
(***************************************************************************)

\* C2: if README.rst is absent, a build run as the main program never calls
\* setup(), never produces an artifact, never holds a handle, and ends in the
\* failed state with the file-access error of open(), whatever other files
\* the checkout holds.
C2_ReadmeAbsentFails ==
    (is_main /\ "README.rst" \notin fs) =>
        /\ setup_calls = <<>>
        /\ artifact = <<>>
        /\ file = "none"
        /\ Ended => (State = "failed" /\ err = "FileNotFound")

C2_Witness ==
    /\ is_main /\ Ended
    /\ fs = AllFiles \ {"README.rst"}
    /\ err = "FileNotFound"

(***************************************************************************)
(* C3                                                                      *)
(***************************************************************************)

\* C3 as stated: the long_description passed to setup() equals the content
\* of README.rst verbatim, for every content.
C3_LongDescriptionVerbatim ==
    \A i \in 1..Len(setup_calls) : setup_calls[i].long_description = readme

\* C3, amended: exactly one description is collected and the join adds
\* nothing to it, so the long_description passed to setup() is the text
\* file.read() returned.  That text is the content of README.rst verbatim
\* under Python 2 and whenever the content holds no carriage return; under
\* Python 3 a content with carriage returns is read with its line endings
\* translated: no carriage return is left, no text is added, and the
\* characters other than line breaks are the same in the same order.
C3_LongDescriptionIsTextRead ==
    \A i \in 1..Len(setup_calls) :
        LET d == setup_calls[i].long_description
        IN  /\ Len(long_descriptions) = 1
            /\ d = long_descriptions[1]
            /\ (python = 2 \/ "\r" \notin Range(readme)) => d = readme
            /\ python = 3 =>
                  /\ "\r" \notin Range(d)
                  /\ Len(d) <= Len(readme)
                  /\ Letters(d) = Letters(readme)

C3_Witness ==
    /\ setup_calls # <<>>
    /\ readme = separator
    /\ setup_calls[1].long_description = separator

(***************************************************************************)
(* C4                                                                      *)
(***************************************************************************)

\* C4: a build run as the main program eventually ends in one of the two
\* terminal states and never in both; once the script has ended it takes no
\* further step and its state stays what it is; README.rst is opened at most
\* once and setup() is called at most once (no retry).
C4_EndsOnceInOneTerminalState ==
    /\ [](Len(opened) <= 1 /\ Len(setup_calls) <= 1)
    /\ [](~(artifact # <<>> /\ err # "none"))
    /\ [][~Ended /\ (State \in TerminalStates => State' = State)]_vars
    /\ (is_main => <>(Ended /\ State \in TerminalStates))

C4_Witness ==
    /\ is_main /\ Ended
    /\ State = "failed"
    /\ err = "ReadError"
    /\ Len(opened) = 1

(***************************************************************************)
(* C5                                                                      *)
(***************************************************************************)

C6_HandleReleased ==
    /\ file # "none" => opened = <<"README.rst">>
    /\ pc \in {"l9", "setup"} => file = "closed"
    /\ setup_calls # <<>> => file = "closed"
    /\ err = "ReadError" => file = "closed"
    /\ Ended => file # "open"

C6_Witness ==
    /\ Ended
    /\ err = "ReadError"
    /\ file = "closed"
    /\ setup_calls = <<>>

(***************************************************************************)
(* C7                                                                      *)
(***************************************************************************)

\* C7: every setup() call passes a dependency list of exactly one entry,
\* the bare requirement python-xlib with no version specifier after the
\* name, whatever the checkout and the interpreter.
C7_OneUnpinnedDependency ==
    \A i \in 1..Len(setup_calls) :
        /\ Len(setup_calls[i].install_requires) = 1
        /\ setup_calls[i].install_requires[1] = "python-xlib"

C7_Witness ==
    /\ setup_calls # <<>>
    /\ python = 2
    /\ fs = {"README.rst", "xpaste"}

(***************************************************************************)
(* C8                                                                      *)
(***************************************************************************)

\* C8: in every build, whatever README.rst holds and however the build
\* ends, setup() is passed the name xpaste, the version 1.6, the license
\* GPLv3+ and the platforms [linux]; any two builds therefore agree on them.
C8_StableLiterals ==
    \A i \in 1..Len(setup_calls) :
        /\ setup_calls[i].name = "xpaste"
        /\ setup_calls[i].version = "1.6"
        /\ setup_calls[i].license = "GPLv3+"
        /\ setup_calls[i].platforms = <<"linux">>

C8_Witness ==
    /\ setup_calls # <<>>
    /\ Len(readme) >= 2
    /\ State = "failed"
    /\ setup_calls[1].version = "1.6"

(***************************************************************************)
(* C9                                                                      *)
(***************************************************************************)

\* C9: in every produced artifact each data file has exactly one install
\* destination, LICENSE.txt and README.rst under share/doc/xpaste and
\* xpaste.1x under share/man/man1, each listed once; xpaste is listed as a
\* script and under no data directory.
C9_InstallDestinations ==
    \A i \in 1..Len(artifact) :
        /\ Destinations(artifact[i], "LICENSE.txt") = {"share/doc/xpaste"}
        /\ Destinations(artifact[i], "README.rst") = {"share/doc/xpaste"}
        /\ Destinations(artifact[i], "xpaste.1x") = {"share/man/man1"}
        /\ Destinations(artifact[i], "xpaste") = {}
        /\ artifact[i].scripts = <<"xpaste">>
        /\ CountEntries(artifact[i].data_files) = 3

C9_Witness ==
    /\ artifact # <<>>
    /\ AllFiles \subseteq fs
    /\ Destinations(artifact[1], "xpaste.1x") = {"share/man/man1"}

(***************************************************************************)
(* C10                                                                     *)
(***************************************************************************)

\* C10: loaded other than as the main program, the descriptor performs no
\* build step: nothing is opened, setup() is not called, no error is raised
\* even when README.rst is absent, the state stays 'descriptor declared',
\* and no step changes the checkout.
C10_NoBuildWhenNotMain ==
    /\ [](~is_main =>
            /\ opened = <<>>
            /\ file = "none"
            /\ long_descriptions = <<>>
            /\ setup_calls = <<>>
            /\ artifact = <<>>
            /\ err = "none"
            /\ pending = "none"
            /\ State = "descriptor declared")
    /\ [][~is_main => UNCHANGED <<fs, readme>>]_vars

C10_Witness ==
    /\ ~is_main
    /\ Ended
    /\ "README.rst" \notin fs

====
